---- MODULE Spec2Model ----
(***************************************************************************)
(* dnsup: dynamic DNS updater.  Two programs share the resolver and the    *)
(* address merge: the RFC 2136 signed-update program (src/unnamed/part_000)*)
(* and the Azure DNS program (src/dnsup.go).                               *)
(*                                                                         *)
(* A net.IP / net.IPMask is a sequence of bytes (0..255); nil is <<>>.     *)
(***************************************************************************)
EXTENDS Integers, Sequences, FiniteSets, TLC

VARIABLES
    prog,        \* which main() runs: "nsupdate" (part_000) or "azure" (dnsup.go)
    pc,          \* position of main()
    config,      \* *Config after yaml.Unmarshal: [hosts, ttl, zone]
    ifs,         \* net.Interfaces() as read by the resolver loop
    sixFrom,     \* -6 flag (the -4 flag is left at its default, "eth0")
    four,        \* var four net.IP
    sixPrefix,   \* var sixPrefix net.IP
    todo,        \* hosts the range over config.Hosts has not visited yet
    insertions,  \* nsupdate: []dns.RR built by the loop
    updateMsg,   \* nsupdate: *dns.Msg handed to Exchange
    phase,       \* nsupdate: state of the update transaction
    exchanges,   \* nsupdate: number of c.Exchange calls made
    logged,      \* lines written to logger, in order
    wg,          \* azure: sync.WaitGroup counter
    task,        \* azure: per host, the state of its goroutine
    requests,    \* azure: record sets handed to CreateOrUpdate
    failing,     \* azure: hosts for which the API call returns an error
    err,         \* main's err: of c.Exchange (nsupdate), of GetAuthorizer (azure)
    mergeIn,     \* ApplyIPToMask alone: its receiver and argument
    mergeOut     \* ApplyIPToMask alone: its result

vars == <<prog, pc, config, ifs, sixFrom, four, sixPrefix, todo, insertions,
          updateMsg, phase, exchanges, logged, wg, task, requests, failing,
          err, mergeIn, mergeOut>>

----------------------------------------------------------------------------
(* Bytes and bit operations *)

Pow2(n) ==
    CASE n = 0 -> 1 [] n = 1 -> 2 [] n = 2 -> 4 [] n = 3 -> 8 [] n = 4 -> 16
      [] n = 5 -> 32 [] n = 6 -> 64 [] n = 7 -> 128 [] OTHER -> 256

\* bit k (0 = least significant) of byte a
BitOf(a, k) == (a \div Pow2(k)) % 2

\* a & b for every pair of bytes
AndTable ==
    [a \in 0..255 |-> [b \in 0..255 |->
        BitOf(a,0)*BitOf(b,0) + 2*BitOf(a,1)*BitOf(b,1) + 4*BitOf(a,2)*BitOf(b,2)
        + 8*BitOf(a,3)*BitOf(b,3) + 16*BitOf(a,4)*BitOf(b,4) + 32*BitOf(a,5)*BitOf(b,5)
        + 64*BitOf(a,6)*BitOf(b,6) + 128*BitOf(a,7)*BitOf(b,7)]]

\* a | b for every pair of bytes
OrTable == [a \in 0..255 |-> [b \in 0..255 |-> a + b - AndTable[a][b]]]

\* a & b on bytes
And8(a, b) == AndTable[a][b]

\* a | b on bytes
Or8(a, b) == OrTable[a][b]

nil == << >>

Zeros(n) == [i \in 1..n |-> 0]

v4InV6Prefix == <<0, 0, 0, 0, 0, 0, 0, 0, 0, 0, 255, 255>>

\* net.IP.To4: the 4-byte form, or nil
To4(ip) ==
    IF Len(ip) = 4 THEN ip
    ELSE IF Len(ip) = 16 /\ SubSeq(ip, 1, 12) = v4InV6Prefix THEN SubSeq(ip, 13, 16)
    ELSE nil

\* net.IP.To16: the 16-byte form, or nil
To16(ip) ==
    IF Len(ip) = 4 THEN v4InV6Prefix \o ip
    ELSE IF Len(ip) = 16 THEN ip
    ELSE nil

\* net.CIDRMask(ones, bits)
CIDRMask(ones, bits) ==
    [k \in 1..(bits \div 8) |->
        LET r == ones - 8 * (k - 1)
        IN  IF r >= 8 THEN 255 ELSE IF r <= 0 THEN 0 ELSE 256 - Pow2(8 - r)]

allFF(b) == \A k \in 1..Len(b) : b[k] = 255

\* net.IP.Mask(mask)
Mask(ip, mask) ==
    LET m == IF Len(mask) = 16 /\ Len(ip) = 4 /\ allFF(SubSeq(mask, 1, 12))
             THEN SubSeq(mask, 13, 16) ELSE mask
        a == IF Len(mask) = 4 /\ Len(ip) = 16 /\ SubSeq(ip, 1, 12) = v4InV6Prefix
             THEN SubSeq(ip, 13, 16) ELSE ip
    IN  IF Len(a) # Len(m) THEN nil
        ELSE [k \in 1..Len(a) |-> And8(a[k], m[k])]

\* net.ParseCIDR on a literal [addr, ones]: addr has 4 bytes when written
\* dotted and 16 when written with colons
ParseCIDR(lit) ==
    IF lit.ones < 0 \/ lit.ones > 8 * Len(lit.addr)
    THEN [err |-> TRUE, ip |-> nil, mask |-> nil]
    ELSE [err |-> FALSE, ip |-> To16(lit.addr),
          mask |-> CIDRMask(lit.ones, 8 * Len(lit.addr))]

----------------------------------------------------------------------------
(* Partial address *)

\* IP.UnmarshalYAML: the IP{ip, mask} a literal parses to
UnmarshalYAML(lit) ==
    LET r == ParseCIDR(lit)
    IN  [err |-> r.err, ip |-> r.ip, mask |-> r.mask]

\* IP.Is4
Is4(i) == To4(i.ip) # nil

\* ApplyIPToMask without ip.Mask(i.mask): the discovered address is not cut
ApplyIPToMask_unmasked(i, ip) ==
    LET newIp == To16(ip)
        ourIp == To16(i.ip)
    IN  IF Len(ourIp) > 0 /\ newIp = nil
        THEN [panic |-> TRUE, ip |-> nil]
        ELSE [panic |-> FALSE,
              ip |-> [idx \in 1..Len(newIp) |-> Or8(newIp[idx], ourIp[idx])]]

\* ApplyIPToMask with newIp[idx] = val in place of newIp[idx] | val
ApplyIPToMask_assign(i, ip) ==
    LET newIp == To16(Mask(ip, i.mask))
        ourIp == To16(i.ip)
    IN  IF Len(ourIp) > 0 /\ newIp = nil
        THEN [panic |-> TRUE, ip |-> nil]
        ELSE [panic |-> FALSE, ip |-> [idx \in 1..Len(newIp) |-> ourIp[idx]]]

\* ApplyIPToMask that starts from a zero address when Mask returns nil
ApplyIPToMask_zero(i, ip) ==
    LET masked == To16(Mask(ip, i.mask))
        newIp == IF masked = nil THEN Zeros(16) ELSE masked
        ourIp == To16(i.ip)
    IN  [panic |-> FALSE,
         ip |-> [idx \in 1..16 |-> Or8(newIp[idx], ourIp[idx])]]

\* IP.ApplyIPToMask: newIp[idx] on a nil newIp is an index-out-of-range panic
ApplyIPToMask(i, ip) ==
    LET newIp == To16(Mask(ip, i.mask))
        ourIp == To16(i.ip)
    IN  IF Len(ourIp) > 0 /\ newIp = nil
        THEN [panic |-> TRUE, ip |-> nil]
        ELSE [panic |-> FALSE,
              ip |-> [idx \in 1..Len(newIp) |->
                         IF idx <= Len(ourIp) THEN Or8(newIp[idx], ourIp[idx])
                         ELSE newIp[idx]]]

----------------------------------------------------------------------------
(* Interface address resolver *)

\* net.IP.IsGlobalUnicast
IsGlobalUnicast(ip) ==
    LET v4 == To4(ip)
    IN  /\ Len(ip) \in {4, 16}
        /\ v4 # <<255, 255, 255, 255>>                            \* IPv4bcast
        /\ ~(v4 = Zeros(4) \/ ip = Zeros(16))                      \* IsUnspecified
        /\ ~(IF v4 # nil THEN v4[1] = 127
             ELSE ip = Zeros(15) \o <<1>>)                         \* IsLoopback
        /\ ~(IF v4 # nil THEN And8(v4[1], 240) = 224
             ELSE Len(ip) = 16 /\ ip[1] = 255)                     \* IsMulticast
        /\ ~(IF v4 # nil THEN v4[1] = 169 /\ v4[2] = 254
             ELSE Len(ip) = 16 /\ ip[1] = 254 /\ And8(ip[2], 192) = 128)  \* IsLinkLocalUnicast

\* chooseUnicast without the IsGlobalUnicast test
KeepUnicast_any(addr) == addr.kind = "IPNet"

\* one address of the loop in chooseUnicast: kept or skipped
KeepUnicast(addr) == addr.kind = "IPNet" /\ IsGlobalUnicast(addr.ip)

\* chooseUnicast
chooseUnicast(a) == SelectSeq(a, KeepUnicast)

\* chooseFour
RECURSIVE chooseFour(_)
chooseFour(in) ==
    IF in = << >> THEN nil
    ELSE IF To4(Head(in).ip) # nil THEN To4(Head(in).ip)
    ELSE chooseFour(Tail(in))

\* chooseSix
RECURSIVE chooseSix(_)
chooseSix(in) ==
    IF in = << >> THEN nil
    ELSE IF To4(Head(in).ip) = nil THEN Mask(Head(in).ip, Head(in).mask)
    ELSE chooseSix(Tail(in))

fourFrom == "eth0"

\* the loop over ifs in main, from interface k on; r = [four, six]
RECURSIVE ResolveFrom(_, _, _, _)
ResolveFrom(is, k, six, r) ==
    IF k > Len(is) THEN r
    ELSE IF is[k].err THEN ResolveFrom(is, k + 1, six, r)
    ELSE LET f == IF is[k].name = fourFrom
                  THEN chooseFour(chooseUnicast(is[k].addrs)) ELSE r.four
             s == IF is[k].name = six
                  THEN chooseSix(chooseUnicast(is[k].addrs)) ELSE r.six
         IN  ResolveFrom(is, k + 1, six, [four |-> f, six |-> s])

----------------------------------------------------------------------------
(* Inputs *)

MaxHosts == 2
MaxAddrs == 2

HostName(k) ==
    CASE k = 1 -> "@" [] k = 2 -> "host1" [] k = 3 -> "host2" [] OTHER -> "host3"

V4(a, b, c, d) == <<a, b, c, d>>

\* 2001:470:1f0e:83f::/64 followed by the 8 bytes t
InPrefix(t) == <<32, 1, 4, 112, 31, 14, 8, 63>> \o t

Suffix1234 == <<18, 52, 18, 52, 18, 52, 18, 52>>

Lit(addr, ones) == [addr |-> addr, ones |-> ones]

\* host literals of the README: "@": 0.0.0.0/32, 0.0.0.9/24, ::1234:1234:1234:1234/64
LitAt   == Lit(V4(0, 0, 0, 0), 32)
LitNine == Lit(V4(0, 0, 0, 9), 24)
LitSix  == Lit(Zeros(8) \o Suffix1234, 64)
\* not valid CIDR: 0.0.0.9/33
LitBad  == Lit(V4(0, 0, 0, 9), 33)

HostLits == {LitAt, LitNine, LitSix}

Zone == <<"zone", ".">>

\* the config files tried: the first n host names, each with a literal
ConfigFiles ==
    { [hosts |-> h, ttl |-> t, zone |-> Zone] :
        h \in UNION { [ {HostName(k) : k \in 1..n} -> HostLits ] : n \in 0..MaxHosts },
        t \in {300, 600} }
    \cup { [hosts |-> [x \in {"@"} |-> LitBad], ttl |-> 300, zone |-> Zone] }

IPNet(ip, ones) ==
    [kind |-> "IPNet", ip |-> To16(ip), mask |-> CIDRMask(ones, 8 * Len(ip))]

\* a net.Addr that is not a *net.IPNet
OtherAddr == [kind |-> "IPAddr", ip |-> To16(V4(5, 6, 7, 8)), mask |-> nil]

Iface(name, e, addrs) == [name |-> name, err |-> e, addrs |-> addrs]

AddrGlobal4 == IPNet(V4(1, 2, 3, 4), 24)
AddrGlobal6 == IPNet(InPrefix(<<0, 0, 0, 0, 0, 0, 0, 2>>), 64)
AddrLoop4   == IPNet(V4(127, 0, 0, 1), 8)
AddrLink6   == IPNet(<<254, 128>> \o Zeros(13) \o <<1>>, 64)

\* interface states of the full runs
RunIfs ==
    { <<Iface("eth0", e, a4), Iface("br0", FALSE, a6)>> :
        e \in BOOLEAN,
        a4 \in { <<AddrLoop4, AddrGlobal4>>, <<AddrLoop4>> },
        a6 \in { <<AddrLink6, AddrGlobal6>>, <<AddrLink6>> } }

\* addresses an interface may carry in the resolver runs
AddrPool ==
    { AddrLoop4, AddrGlobal4, IPNet(V4(198, 100, 123, 139), 24),
      IPNet(V4(169, 254, 0, 5), 16), IPNet(V4(224, 0, 0, 1), 4),
      AddrLink6, AddrGlobal6,
      IPNet(<<32, 1, 13, 184, 171, 205>> \o Zeros(9) \o <<5>>, 44),
      IPNet(<<255, 2>> \o Zeros(13) \o <<1>>, 128),
      IPNet(Zeros(15) \o <<1>>, 128),
      OtherAddr }

RECURSIVE SeqsUpTo(_, _)
SeqsUpTo(S, n) ==
    IF n = 0 THEN { << >> }
    ELSE LET shorter == SeqsUpTo(S, n - 1)
         IN  shorter \cup { Append(q, x) : q \in shorter, x \in S }

ResolverIfs ==
    { <<Iface("lo", FALSE, <<AddrLoop4>>), Iface("eth0", e, a), Iface("br0", FALSE, b)>> :
        e \in BOOLEAN, a \in SeqsUpTo(AddrPool, MaxAddrs),
        b \in { << >>, <<AddrGlobal4, AddrGlobal6>> } }

----------------------------------------------------------------------------
(* Names, records, text forms *)

\* dns.Fqdn on a name held as a sequence of labels and dots
Fqdn(s) == IF s # << >> /\ s[Len(s)] = "." THEN s ELSE Append(s, ".")

\* joinDomain
joinDomain(part, fqdn) ==
    IF part = "@" THEN Fqdn(fqdn) ELSE Fqdn(Fqdn(<<part>>) \o fqdn)

\* dns.RR_Header{name, rrtype, class, ttl, 0} with the record's data
RR(name, rrtype, class, ttl, data) ==
    [name |-> name, rrtype |-> rrtype, class |-> class, ttl |-> ttl, data |-> data]

\* net.IP.String: dotted when the address has a 4-byte form
String(ip) ==
    IF To4(ip) # nil THEN [form |-> "dotted", bytes |-> To4(ip)]
    ELSE [form |-> "colon", bytes |-> ip]

AzureTtl == 300

\* the dns.RecordSet of SetARecord / SetAAAARecord
RecordSet(host, rrtype, ip) ==
    [host |-> host, rrtype |-> rrtype, ttl |-> AzureTtl, addr |-> String(ip)]

Line(kind, about) == [kind |-> kind, about |-> about]

NoConfig == [hosts |-> << >>, ttl |-> 0, zone |-> << >>]
NoMsg == [set |-> FALSE, zone |-> << >>, Ns |-> << >>, tsig |-> << >>]
NoMerge == [set |-> FALSE]

Exited == pc \in {"done", "fatal", "panic"}

----------------------------------------------------------------------------
(* main: configuration and resolver *)

Start(p, six) ==
    /\ prog = p
    /\ pc = "start"
    /\ config = NoConfig
    /\ ifs = << >>
    /\ sixFrom = six
    /\ four = nil
    /\ sixPrefix = nil
    /\ todo = {}
    /\ insertions = << >>
    /\ updateMsg = NoMsg
    /\ phase = "Idle"
    /\ exchanges = 0
    /\ logged = << >>
    /\ wg = 0
    /\ task = << >>
    /\ requests = {}
    /\ failing = {}
    /\ err = FALSE
    /\ mergeIn = NoMerge
    /\ mergeOut = NoMerge

\* either program, with the flags at their defaults
Init == \E p \in {"nsupdate", "azure"} : Start(p, "br0")

\* ioutil.ReadFile + yaml.Unmarshal; a literal that is not CIDR is fatal
LoadConfig(file) ==
    /\ pc = "start"
    /\ LET parsed == [h \in DOMAIN file.hosts |-> UnmarshalYAML(file.hosts[h])]
       IN  IF \E h \in DOMAIN parsed : parsed[h].err
           THEN /\ logged' = Append(logged, Line("fatal", "config"))
                /\ pc' = "fatal"
                /\ UNCHANGED config
           ELSE /\ config' = [hosts |-> [h \in DOMAIN parsed |->
                                           [ip |-> parsed[h].ip, mask |-> parsed[h].mask]],
                              ttl |-> file.ttl, zone |-> file.zone]
                /\ pc' = "config"
                /\ UNCHANGED logged
    /\ UNCHANGED <<prog, ifs, sixFrom, four, sixPrefix, todo, insertions, updateMsg,
                   phase, exchanges, wg, task, requests, failing, err,
                   mergeIn, mergeOut>>

\* net.Interfaces() fails
InterfacesFail ==
    /\ pc = "config"
    /\ logged' = Append(logged, Line("fatal", "interfaces"))
    /\ pc' = "fatal"
    /\ UNCHANGED <<prog, config, ifs, sixFrom, four, sixPrefix, todo, insertions,
                   updateMsg, phase, exchanges, wg, task, requests, failing, err,
                   mergeIn, mergeOut>>

\* net.Interfaces() returns i; the loop picks four and sixPrefix
Interfaces(i) ==
    /\ pc = "config"
    /\ ifs' = i
    /\ LET r == ResolveFrom(i, 1, sixFrom, [four |-> nil, six |-> nil])
       IN  four' = r.four /\ sixPrefix' = r.six
    /\ pc' = "resolved"
    /\ UNCHANGED <<prog, config, sixFrom, todo, insertions, updateMsg, phase,
                   exchanges, logged, wg, task, requests, failing, err,
                   mergeIn, mergeOut>>

----------------------------------------------------------------------------
(* main: the loop over config.Hosts *)

\* the discovered address the loop body merges host h with
BaseFor(h) == IF Is4(config.hosts[h]) THEN four ELSE sixPrefix

\* record type of the branch taken for host h
TypeFor(h) == IF Is4(config.hosts[h]) THEN "A" ELSE "AAAA"

\* finalIp of the loop body for host h
FinalFor(h) == ApplyIPToMask(config.hosts[h], BaseFor(h))

----------------------------------------------------------------------------
(* Signed update (src/unnamed/part_000) *)

\* c := &dns.Client{}; insertions := make([]dns.RR, 0, len(config.Hosts))
NewClient ==
    /\ pc = "resolved" /\ prog = "nsupdate"
    /\ insertions' = << >>
    /\ todo' = DOMAIN config.hosts
    /\ pc' = "loop"
    /\ UNCHANGED <<prog, config, ifs, sixFrom, four, sixPrefix, updateMsg, phase,
                   exchanges, logged, wg, task, requests, failing, err,
                   mergeIn, mergeOut>>

\* InsertHost that appends the delete-ANY record after the address record
InsertHost_swapped(host) ==
    /\ pc = "loop" /\ prog = "nsupdate"
    /\ host \in todo
    /\ LET fqdn == joinDomain(host, config.zone)
           any == RR(fqdn, "ANY", "ANY", 0, nil)
           final == FinalFor(host)
       IN  IF final.panic
           THEN /\ pc' = "panic"
                /\ UNCHANGED <<todo, logged, insertions>>
           ELSE /\ insertions' = insertions \o
                       <<RR(fqdn, TypeFor(host), "INET", config.ttl, final.ip), any>>
                /\ logged' = Append(logged, Line("updating", host))
                /\ todo' = todo \ {host}
                /\ pc' = pc
    /\ UNCHANGED <<prog, config, ifs, sixFrom, four, sixPrefix, updateMsg, phase,
                   exchanges, wg, task, requests, failing, err, mergeIn, mergeOut>>

\* one iteration of the loop: the ANY record, the merge, the A or AAAA record
InsertHost(host) ==
    /\ pc = "loop" /\ prog = "nsupdate"
    /\ host \in todo
    /\ LET fqdn == joinDomain(host, config.zone)
           any == RR(fqdn, "ANY", "ANY", 0, nil)
           final == FinalFor(host)
       IN  IF final.panic
           THEN /\ insertions' = Append(insertions, any)
                /\ pc' = "panic"
                /\ UNCHANGED <<todo, logged>>
           ELSE /\ insertions' = insertions \o
                       <<any, RR(fqdn, TypeFor(host), "INET", config.ttl, final.ip)>>
                /\ logged' = Append(logged, Line("updating", host))
                /\ todo' = todo \ {host}
                /\ pc' = pc
    /\ UNCHANGED <<prog, config, ifs, sixFrom, four, sixPrefix, updateMsg, phase,
                   exchanges, wg, task, requests, failing, err, mergeIn, mergeOut>>

\* after the loop: the TXT record, SetUpdate, Ns = insertions, SetTsig
BuildMsg ==
    /\ pc = "loop" /\ prog = "nsupdate"
    /\ todo = {}
    /\ LET all == Append(insertions,
                         RR(Fqdn(config.zone), "TXT", "INET", config.ttl, <<"now">>))
       IN  /\ insertions' = all
           /\ updateMsg' = [set |-> TRUE, zone |-> Fqdn(config.zone), Ns |-> all,
                            tsig |-> <<[algorithm |-> "HmacMD5", fudge |-> 300]>>]
    /\ phase' = "Built"
    /\ pc' = "built"
    /\ UNCHANGED <<prog, config, ifs, sixFrom, four, sixPrefix, todo, exchanges,
                   logged, wg, task, requests, failing, err, mergeIn, mergeOut>>

\* c.Exchange(updateMsg, config.Server) is called
ExchangeCall ==
    /\ pc = "built"
    /\ exchanges' = exchanges + 1
    /\ phase' = "Sent"
    /\ pc' = "exchange"
    /\ UNCHANGED <<prog, config, ifs, sixFrom, four, sixPrefix, todo, insertions,
                   updateMsg, logged, wg, task, requests, failing, err,
                   mergeIn, mergeOut>>

\* what main does with the err Exchange returned
AfterExchange(e) == IF e THEN "fatal" ELSE "done"

\* ExchangeReturn that sends the message again after an error
ExchangeReturn_retry(reply, e) ==
    /\ pc = "exchange"
    /\ err' = e
    /\ IF e
       THEN /\ logged' = Append(logged, Line("reply", reply))
            /\ phase' = "Built"
            /\ pc' = IF exchanges < 2 THEN "built" ELSE "fatal"
       ELSE /\ phase' = "Success"
            /\ pc' = "done"
            /\ UNCHANGED logged
    /\ UNCHANGED <<prog, config, ifs, sixFrom, four, sixPrefix, todo, insertions,
                   updateMsg, exchanges, wg, task, requests, failing,
                   mergeIn, mergeOut>>

\* c.Exchange returns (reply, _, e)
ExchangeReturn(reply, e) ==
    /\ pc = "exchange"
    /\ err' = e
    /\ IF AfterExchange(e) = "fatal"
       THEN /\ logged' = logged \o <<Line("reply", reply), Line("fatal", "update")>>
            /\ phase' = "Fatal"
            /\ pc' = "fatal"
       ELSE /\ phase' = "Success"
            /\ pc' = "done"
            /\ UNCHANGED logged
    /\ UNCHANGED <<prog, config, ifs, sixFrom, four, sixPrefix, todo, insertions,
                   updateMsg, exchanges, wg, task, requests, failing,
                   mergeIn, mergeOut>>

----------------------------------------------------------------------------
(* Azure DNS (src/dnsup.go) *)

IdleTask == [st |-> "idle", rrtype |-> "", ip |-> nil]

\* GetAuthorizer and newAzureDnsUpdater; f: the hosts the service will refuse.
\* The failure exits through log.Fatal, the standard logger (stderr): nothing
\* is written to logger.
Authorize(e, f) ==
    /\ pc = "resolved" /\ prog = "azure"
    /\ err' = e
    /\ IF e
       THEN /\ pc' = "fatal"
            /\ UNCHANGED <<todo, wg, task, failing>>
       ELSE /\ todo' = DOMAIN config.hosts
            /\ wg' = 0
            /\ task' = [h \in DOMAIN config.hosts |-> IdleTask]
            /\ failing' = f
            /\ pc' = "loop"
    /\ UNCHANGED logged
    /\ UNCHANGED <<prog, config, ifs, sixFrom, four, sixPrefix, insertions, updateMsg,
                   phase, exchanges, requests, mergeIn, mergeOut>>

\* main is inside an iteration of the loop, past logger.Printf
InIteration == pc \in {"printf", "add"}

\* one iteration of the loop up to the call of SetARecord / SetAAAARecord: the
\* merge (a panic on a nil base), then logger.Printf
LoopBody(host) ==
    /\ pc = "loop" /\ prog = "azure"
    /\ host \in todo
    /\ LET final == FinalFor(host)
       IN  IF final.panic
           THEN /\ pc' = "panic"
                /\ UNCHANGED <<todo, logged, task>>
           ELSE /\ logged' = Append(logged, Line("updating", host))
                /\ task' = [task EXCEPT ![host] =
                              [st |-> "merged", rrtype |-> TypeFor(host), ip |-> final.ip]]
                /\ todo' = todo \ {host}
                /\ pc' = "printf"
    /\ UNCHANGED <<prog, config, ifs, sixFrom, four, sixPrefix, insertions, updateMsg,
                   phase, exchanges, wg, requests, failing, err, mergeIn, mergeOut>>

\* SetARecord / SetAAAARecord: a.wg.Add(1)
wgAdd(host) ==
    /\ pc = "printf" /\ prog = "azure"
    /\ host \in DOMAIN task
    /\ task[host].st = "merged"
    /\ wg' = wg + 1
    /\ task' = [task EXCEPT ![host].st = "counted"]
    /\ pc' = "add"
    /\ UNCHANGED <<prog, config, ifs, sixFrom, four, sixPrefix, todo, insertions,
                   updateMsg, phase, exchanges, logged, requests, failing, err,
                   mergeIn, mergeOut>>

\* SetARecord / SetAAAARecord: the go statement; main goes on to the next host
goFunc(host) ==
    /\ pc = "add" /\ prog = "azure"
    /\ host \in DOMAIN task
    /\ task[host].st = "counted"
    /\ task' = [task EXCEPT ![host].st = "spawned"]
    /\ pc' = "loop"
    /\ UNCHANGED <<prog, config, ifs, sixFrom, four, sixPrefix, todo, insertions,
                   updateMsg, phase, exchanges, logged, wg, requests, failing, err,
                   mergeIn, mergeOut>>

\* the goroutine of host calls dnsClient.CreateOrUpdate
CreateOrUpdate(host) ==
    /\ ~Exited /\ prog = "azure"
    /\ host \in DOMAIN task
    /\ task[host].st = "spawned"
    /\ requests' = requests \cup {RecordSet(host, task[host].rrtype, task[host].ip)}
    /\ task' = [task EXCEPT ![host].st = "calling"]
    /\ UNCHANGED <<prog, pc, config, ifs, sixFrom, four, sixPrefix, todo, insertions,
                   updateMsg, phase, exchanges, logged, wg, failing, err,
                   mergeIn, mergeOut>>

\* LogError after which the goroutine returns without a.wg.Done()
LogError_noDone(host) ==
    /\ ~Exited /\ prog = "azure"
    /\ host \in DOMAIN task
    /\ task[host].st = "calling"
    /\ host \in failing
    /\ logged' = Append(logged, Line("error", host))
    /\ task' = [task EXCEPT ![host].st = "failed"]
    /\ UNCHANGED <<prog, pc, config, ifs, sixFrom, four, sixPrefix, todo, insertions,
                   updateMsg, phase, exchanges, wg, requests, failing, err,
                   mergeIn, mergeOut>>

\* CreateOrUpdate returns an error: a.logger.Print
LogError(host) ==
    /\ ~Exited /\ prog = "azure"
    /\ host \in DOMAIN task
    /\ task[host].st = "calling"
    /\ host \in failing
    /\ logged' = Append(logged, Line("error", host))
    /\ task' = [task EXCEPT ![host].st = "printed"]
    /\ UNCHANGED <<prog, pc, config, ifs, sixFrom, four, sixPrefix, todo, insertions,
                   updateMsg, phase, exchanges, wg, requests, failing, err,
                   mergeIn, mergeOut>>

\* a.wg.Done(): after CreateOrUpdate returned without an error, or after the
\* error was printed
wgDone(host) ==
    /\ ~Exited /\ prog = "azure"
    /\ host \in DOMAIN task
    /\ \/ task[host].st = "calling" /\ host \notin failing
       \/ task[host].st = "printed"
    /\ wg' = wg - 1
    /\ task' = [task EXCEPT ![host].st = IF host \in failing THEN "failed" ELSE "ok"]
    /\ UNCHANGED <<prog, pc, config, ifs, sixFrom, four, sixPrefix, todo, insertions,
                   updateMsg, phase, exchanges, logged, requests, failing, err,
                   mergeIn, mergeOut>>

\* err after Wait set by any failed API call
ErrAfterWait_anyFailure == err \/ \E h \in DOMAIN task : task[h].st = "failed"

\* the value of err tested after updater.Wait(): GetAuthorizer's
ErrAfterWait == err

\* updater.Wait() returns once the counter is zero; then the test of err
Wait ==
    /\ pc = "loop" /\ prog = "azure"
    /\ todo = {}
    /\ wg = 0
    /\ IF ErrAfterWait
       THEN /\ logged' = Append(logged, Line("fatal", "update"))
            /\ pc' = "fatal"
       ELSE /\ pc' = "done"
            /\ UNCHANGED logged
    /\ UNCHANGED <<prog, config, ifs, sixFrom, four, sixPrefix, todo, insertions,
                   updateMsg, phase, exchanges, wg, task, requests, failing, err,
                   mergeIn, mergeOut>>

----------------------------------------------------------------------------
(* Specifications *)

Next ==
    \/ \E file \in ConfigFiles : LoadConfig(file)
    \/ InterfacesFail
    \/ \E i \in RunIfs : Interfaces(i)
    \/ NewClient
    \/ \E host \in todo : InsertHost(host)
    \/ BuildMsg
    \/ ExchangeCall
    \/ \E reply \in {"nil", "reply"}, e \in BOOLEAN : ExchangeReturn(reply, e)
    \/ \E e \in BOOLEAN, f \in SUBSET DOMAIN config.hosts : Authorize(e, f)
    \/ \E host \in todo : LoopBody(host)
    \/ \E host \in DOMAIN task : wgAdd(host)
    \/ \E host \in DOMAIN task : goFunc(host)
    \/ \E host \in DOMAIN task : CreateOrUpdate(host)
    \/ \E host \in DOMAIN task : LogError(host)
    \/ \E host \in DOMAIN task : wgDone(host)
    \/ Wait

Spec == Init /\ [][Next]_vars

AllHosts == {HostName(k) : k \in 1..MaxHosts}

\* main of the Azure program runs on
AzureMain ==
    \/ \E e \in BOOLEAN, f \in SUBSET DOMAIN config.hosts : Authorize(e, f)
    \/ \E host \in todo : LoopBody(host)
    \/ \E host \in DOMAIN task : wgAdd(host)
    \/ \E host \in DOMAIN task : goFunc(host)
    \/ Wait

\* the Azure program alone, with the default TTL, the README's /32 and /64
\* literals, eth0 readable and an IPv6 prefix on br0
AzureInit == Start("azure", "br0")

AzureNext ==
    \/ \E file \in { c \in ConfigFiles :
                        /\ c.ttl = AzureTtl
                        /\ \A h \in DOMAIN c.hosts : c.hosts[h] \in {LitAt, LitSix} } :
          LoadConfig(file)
    \/ \E i \in { x \in RunIfs : ~x[1].err /\ Len(x[2].addrs) = 2 } : Interfaces(i)
    \/ AzureMain
    \/ \E host \in DOMAIN task : CreateOrUpdate(host)
    \/ \E host \in DOMAIN task : LogError(host)
    \/ \E host \in DOMAIN task : wgDone(host)

\* main and every goroutine are scheduled, and every API call returns
FairSpec ==
    /\ AzureInit
    /\ [][AzureNext]_vars
    /\ WF_vars(AzureMain)
    /\ \A h \in AllHosts : WF_vars(CreateOrUpdate(h) \/ LogError(h) \/ wgDone(h))

----------------------------------------------------------------------------
(* The resolver alone, over every address list up to MaxAddrs *)

ResolverInit == \E six \in {"eth0", "br0"} : Start("nsupdate", six)

\* the configuration is loaded, then the interfaces are read
ResolverNext ==
    \/ LoadConfig([hosts |-> [x \in {"@"} |-> LitAt], ttl |-> 300, zone |-> Zone])
    \/ \E i \in ResolverIfs : Interfaces(i)

ResolverSpec == ResolverInit /\ [][ResolverNext]_vars

----------------------------------------------------------------------------
(* ApplyIPToMask alone, over every prefix length *)

MergeBases ==
    { V4(0, 0, 0, 0), V4(0, 0, 0, 9), V4(192, 168, 7, 9), V4(255, 255, 255, 255),
      Zeros(16), Zeros(8) \o Suffix1234,
      <<32, 1, 13, 184>> \o Zeros(11) \o <<1>>,
      [k \in 1..16 |-> 255],
      v4InV6Prefix \o V4(0, 0, 0, 9) }

MergeLits == { Lit(a, n) : a \in MergeBases, n \in 0..128 }

\* values four can take: nil or the 4-byte form of a global unicast address
MergeFours == { nil, V4(1, 2, 3, 4), V4(198, 100, 123, 139), V4(10, 255, 170, 85) }

\* values sixPrefix can take: nil or a masked 16-byte address
MergeSixes ==
    { nil, InPrefix(Zeros(8)), InPrefix(<<0, 0, 0, 0, 0, 0, 0, 2>>),
      <<32, 1, 13, 184, 171, 192>> \o Zeros(10) }

MergeInit ==
    /\ prog = "nsupdate"
    /\ pc = "merge"
    /\ config = NoConfig
    /\ ifs = << >>
    /\ sixFrom = "br0"
    /\ four = nil
    /\ sixPrefix = nil
    /\ todo = {}
    /\ insertions = << >>
    /\ updateMsg = NoMsg
    /\ phase = "Idle"
    /\ exchanges = 0
    /\ logged = << >>
    /\ wg = 0
    /\ task = << >>
    /\ requests = {}
    /\ failing = {}
    /\ err = FALSE
    /\ \E lit \in MergeLits :
          /\ ~UnmarshalYAML(lit).err
          /\ \E d \in (IF Is4(UnmarshalYAML(lit)) THEN MergeFours ELSE MergeSixes) :
                mergeIn = [set |-> TRUE, lit |-> lit, i |-> UnmarshalYAML(lit), ip |-> d]
    /\ mergeOut = NoMerge

\* finalIp := ip.ApplyIPToMask(four) / ip.ApplyIPToMask(sixPrefix)
Merge ==
    /\ pc = "merge"
    /\ LET final == ApplyIPToMask(mergeIn.i, mergeIn.ip)
       IN  mergeOut' = [set |-> TRUE, panic |-> final.panic, ip |-> final.ip]
    /\ pc' = "merged"
    /\ UNCHANGED <<prog, config, ifs, sixFrom, four, sixPrefix, todo, insertions,
                   updateMsg, phase, exchanges, logged, wg, task, requests, failing,
                   err, mergeIn>>

MergeSpec == MergeInit /\ [][Merge]_vars

----------------------------------------------------------------------------
(* Address merge: claims C1, C2 *)

\* bit p (1 = most significant, 128 = least) of a 16-byte address
BitAt(ip16, p) == BitOf(ip16[((p - 1) \div 8) + 1], 7 - ((p - 1) % 8))

\* a mask in its 16-byte form: a 4-byte mask covers the last 32 bits
Mask16(m) == IF Len(m) = 4 THEN [k \in 1..12 |-> 255] \o m ELSE m

MergeReturned == mergeOut.set /\ ~mergeOut.panic

MergeD == To16(mergeIn.ip)
MergeB == To16(mergeIn.i.ip)
MergeM == Mask16(mergeIn.i.mask)

\* the discovered address has the length of the literal's mask
SameFamily == mergeIn.ip # nil /\ Len(mergeIn.ip) = Len(mergeIn.i.mask)

\* C1 as stated: every bit of the merged address is the discovered address's
\* bit where the mask bit is 0 and the partial address's bit where it is 1.
C1_Original ==
    MergeReturned =>
        \A p \in 1..128 :
            BitAt(mergeOut.ip, p) =
                IF BitAt(MergeM, p) = 0 THEN BitAt(MergeD, p) ELSE BitAt(MergeB, p)

\* C1 amended: merged = (d AND m) OR b over the 16-byte forms: where the mask
\* bit is 0 the bit is the partial address's bit, where it is 1 the bit is the
\* discovered address's bit OR the partial address's bit; the call returns for
\* every discovered address of the mask's length; a /32 partial with zero base
\* bits yields the discovered IPv4 address and a /0 partial yields its own
\* base bits.
C1_MergeIsMaskedOr ==
    /\ (mergeOut.set /\ SameFamily) => ~mergeOut.panic
    /\ MergeReturned =>
        /\ Len(mergeOut.ip) = 16
        /\ \A p \in 1..128 :
              BitAt(mergeOut.ip, p) =
                  IF BitAt(MergeM, p) = 0 THEN BitAt(MergeB, p)
                  ELSE IF BitAt(MergeD, p) = 1 THEN 1 ELSE BitAt(MergeB, p)
        /\ (mergeIn.lit = Lit(V4(0, 0, 0, 0), 32)) => mergeOut.ip = MergeD
        /\ (mergeIn.lit.ones = 0) => mergeOut.ip = MergeB

\* 192.168.7.9/20 merged with 10.255.170.85 is 202.255.167.9
C1_Witness ==
    /\ MergeReturned
    /\ mergeIn.lit = Lit(V4(192, 168, 7, 9), 20)
    /\ mergeIn.ip = V4(10, 255, 170, 85)
    /\ mergeOut.ip = v4InV6Prefix \o V4(202, 255, 167, 9)

\* number of bits of the form the literal is written in
LitBits == 8 * Len(mergeIn.lit.addr)

\* the first n bits of the literal, in its own form, are zero
PrefixIsZero ==
    \A p \in 1..mergeIn.lit.ones : BitAt(MergeB, (128 - LitBits) + p) = 0

\* C2: for a CIDR literal with prefix length n whose first n bits are zero and
\* a discovered address of the same family, the merged address has the
\* discovered address's first n bits and the literal's remaining bits:
\* 0.0.0.9/24 with 1.2.3.4 is 1.2.3.9, and ::1234:1234:1234:1234/64 with
\* 2001:470:1f0e:83f:: is 2001:470:1f0e:83f:1234:1234:1234:1234.
C2_PrefixFromInterface ==
    (mergeOut.set /\ SameFamily /\ PrefixIsZero) =>
        /\ ~mergeOut.panic
        /\ \A p \in 1..LitBits :
              BitAt(mergeOut.ip, (128 - LitBits) + p) =
                  IF p <= mergeIn.lit.ones
                  THEN BitAt(MergeD, (128 - LitBits) + p)
                  ELSE BitAt(MergeB, (128 - LitBits) + p)
        /\ (LitBits = 32) => To4(mergeOut.ip) # nil
        /\ (mergeIn.lit = LitNine /\ mergeIn.ip = V4(1, 2, 3, 4))
              => mergeOut.ip = To16(V4(1, 2, 3, 9))
        /\ (mergeIn.lit = LitSix /\ mergeIn.ip = InPrefix(Zeros(8)))
              => mergeOut.ip = InPrefix(Suffix1234)

\* the README's IPv6 case has been merged
C2_Witness ==
    /\ MergeReturned
    /\ mergeIn.lit = LitSix
    /\ mergeIn.ip = InPrefix(Zeros(8))
    /\ mergeOut.ip = InPrefix(Suffix1234)

----------------------------------------------------------------------------
(* Missing base address: claim C3 *)

Hosts == DOMAIN config.hosts
NHosts == Cardinality(Hosts)

\* the A/AAAA records of a record list
AddressRRs(rrs) == { rrs[k] : k \in { j \in 1..Len(rrs) : rrs[j].rrtype \in {"A", "AAAA"} } }

\* C3: when the resolver found no address for the family a host requires, the
\* run never completes (no message is built or exchanged, main never returns
\* normally: it can only end by the fatal exit or the panic) and no address
\* record of that host is put in the update or handed to the provider API.
C3_MissingBaseIsFatal ==
    \A h \in Hosts :
        BaseFor(h) = nil =>
            /\ pc \notin {"built", "exchange", "done"}
            /\ ~updateMsg.set /\ exchanges = 0
            /\ (pc = "loop" \/ InIteration) => h \in todo
            /\ \A r \in AddressRRs(insertions) : r.name # joinDomain(h, config.zone)
            /\ \A r \in requests : r.host # h
            /\ h \in DOMAIN task => task[h].st = "idle"

\* the signed-update run panicked on a host after another host's records
\* were appended
C3_Witness ==
    /\ prog = "nsupdate"
    /\ pc = "panic"
    /\ \E h \in Hosts : BaseFor(h) = nil
    /\ Len(insertions) = 3

----------------------------------------------------------------------------
(* WaitGroup: claims C4, C5, C7 *)

\* the requests SetARecord / SetAAAARecord has counted (wg.Add) whose goroutine
\* has not called wg.Done
InFlight ==
    { h \in DOMAIN task : task[h].st \in {"counted", "spawned", "calling", "printed"} }

\* C4 as stated: the WaitGroup counter equals the number of launched and
\* unfinished requests, and the process ends only when it is zero.
C4_NoExitWhileInFlight ==
    prog = "azure" =>
        /\ wg = Cardinality(InFlight)
        /\ Exited => wg = 0

\* every host's merge succeeds
AllMerge == \A h \in Hosts : ~FinalFor(h).panic

ErrorLines == SelectSeq(logged, LAMBDA l : l.kind = "error")

Succeeded == { h \in DOMAIN task : task[h].st = "ok" }

\* C5: N hosts that all merge, the API failing for exactly one host k, every
\* call returning: Wait returns, N-1 requests succeed, one failure is logged,
\* for host k, and every sibling's request was made and succeeded.
C5_OneFailureIsolated ==
    (prog = "azure" /\ pc = "loop" /\ AllMerge /\ Cardinality(failing) = 1)
    ~> ( /\ pc = "done"
         /\ wg = 0
         /\ Succeeded = Hosts \ failing
         /\ Cardinality(Succeeded) = NHosts - 1
         /\ Len(ErrorLines) = 1
         /\ ErrorLines[1].about \in failing
         /\ { r.host : r \in requests } = Hosts )

\* a run of two hosts ended with one success and one logged failure
C5_Witness ==
    /\ prog = "azure"
    /\ pc = "done"
    /\ NHosts = 2
    /\ Cardinality(failing) = 1
    /\ Cardinality(Succeeded) = 1
    /\ Len(ErrorLines) = 1

FatalLines == SelectSeq(logged, LAMBDA l : l.kind = "fatal")

\* C7: once every request is launched, the run reaches the return of main
\* after Wait with no fatal exit, whatever the API results are.
C7_SuccessDespiteFailures ==
    (prog = "azure" /\ pc = "loop" /\ todo = {})
    ~> (pc = "done" /\ FatalLines = << >>)

\* a run in which every upsert failed returned normally
C7_Witness ==
    /\ prog = "azure"
    /\ pc = "done"
    /\ NHosts = 2
    /\ failing = Hosts
    /\ Len(ErrorLines) = 2
    /\ FatalLines = << >>

----------------------------------------------------------------------------
(* Signed update: claims C6, C9 *)

\* C6: the update section handed to Exchange holds 2N+1 records: for each host
\* a delete-ANY record for its name immediately before its single A or AAAA
\* record (A iff the partial address is IPv4-shaped), then a TXT record at
\* the zone apex.
C6_UpdateSection ==
    updateMsg.set =>
        LET Ns == updateMsg.Ns
        IN  /\ AllMerge
            /\ Len(Ns) = 2 * NHosts + 1
            /\ \A k \in 1..NHosts :
                  /\ Ns[2 * k - 1] = RR(Ns[2 * k].name, "ANY", "ANY", 0, nil)
                  /\ Ns[2 * k].rrtype \in {"A", "AAAA"}
            /\ \A h \in Hosts :
                  /\ Cardinality({ k \in 1..NHosts :
                                     Ns[2 * k].name = joinDomain(h, config.zone) }) = 1
                  /\ \A k \in 1..NHosts :
                        Ns[2 * k].name = joinDomain(h, config.zone) =>
                            (Ns[2 * k].rrtype = "A" <=> Is4(config.hosts[h]))
            /\ Ns[2 * NHosts + 1].rrtype = "TXT"
            /\ Ns[2 * NHosts + 1].name = Fqdn(config.zone)

\* a message for an IPv4 host and an IPv6 host is being exchanged
C6_Witness ==
    /\ pc = "exchange"
    /\ NHosts = 2
    /\ Len(updateMsg.Ns) = 5
    /\ \E a, b \in 1..4 : updateMsg.Ns[a].rrtype = "A" /\ updateMsg.Ns[b].rrtype = "AAAA"

\* C9: the transaction goes Idle -> Built -> Sent -> Success or Fatal; the
\* message is exchanged at most once, after every host record and the TSIG
\* record are in it; an error of the exchange ends in Fatal, the reply logged
\* before the fatal line, and nothing is exchanged again.
C9_SingleShot ==
    [][ prog = "nsupdate" =>
          /\ phase' # phase =>
                <<phase, phase'>> \in { <<"Idle", "Built">>, <<"Built", "Sent">>,
                                        <<"Sent", "Success">>, <<"Sent", "Fatal">> }
          /\ exchanges' <= 1
          /\ exchanges' # exchanges =>
                /\ phase = "Built" /\ phase' = "Sent"
                /\ updateMsg.set /\ updateMsg' = updateMsg
                /\ todo = {}
                /\ Len(updateMsg.Ns) = 2 * NHosts + 1
                /\ Len(updateMsg.tsig) = 1
          /\ (phase = "Sent" /\ phase' # phase) =>
                /\ phase' = (IF err' THEN "Fatal" ELSE "Success")
                /\ pc' = (IF err' THEN "fatal" ELSE "done")
                /\ err' => /\ Len(logged') = Len(logged) + 2
                           /\ logged'[Len(logged) + 1].kind = "reply"
                           /\ logged'[Len(logged) + 2] = Line("fatal", "update")
          /\ phase \in {"Success", "Fatal"} => UNCHANGED vars
    ]_vars

\* the exchange failed: the reply and the fatal line are logged
C9_Witness ==
    /\ prog = "nsupdate"
    /\ phase = "Fatal"
    /\ exchanges = 1
    /\ err
    /\ logged[Len(logged)] = Line("fatal", "update")

----------------------------------------------------------------------------
(* The two strategies: claim C10 *)

\* what a run should publish: per host, its type, merged address and the
\* configured TTL
Expected ==
    { [name |-> joinDomain(h, config.zone), rrtype |-> TypeFor(h),
       addr |-> To16(FinalFor(h).ip), ttl |-> config.ttl] : h \in Hosts }

\* the address records in the message of the signed update
PublishedSigned ==
    { [name |-> r.name, rrtype |-> r.rrtype, addr |-> To16(r.data), ttl |-> r.ttl] :
        r \in AddressRRs(updateMsg.Ns) }

\* the record sets handed to the provider API
PublishedAzure ==
    { [name |-> joinDomain(r.host, config.zone), rrtype |-> r.rrtype,
       addr |-> To16(r.addr.bytes), ttl |-> r.ttl] : r \in requests }

\* C10 as stated: on the same zone, hosts, TTL and discovered addresses both
\* programs publish the same (host, type, merged address, TTL) records, each
\* with the configured TTL.
C10_Interchangeable ==
    /\ (prog = "nsupdate" /\ updateMsg.set) => PublishedSigned = Expected
    /\ (prog = "azure" /\ pc = "done") => PublishedAzure = Expected

----------------------------------------------------------------------------
(* Resolver: claim C8 *)

\* the addresses of the interface named n, nil when there is none or its
\* addresses cannot be read
AddrsOf(n) ==
    IF \E k \in 1..Len(ifs) : ifs[k].name = n /\ ~ifs[k].err
    THEN ifs[CHOOSE k \in 1..Len(ifs) : ifs[k].name = n /\ ~ifs[k].err].addrs
    ELSE << >>

Qualifies4(a) == a.kind = "IPNet" /\ IsGlobalUnicast(a.ip) /\ To4(a.ip) # nil
Qualifies6(a) == a.kind = "IPNet" /\ IsGlobalUnicast(a.ip) /\ To4(a.ip) = nil

\* C8: four is the 4-byte form of the first global unicast address of the -4
\* interface that has one, sixPrefix the first global unicast address of the
\* -6 interface without a 4-byte form, masked to its prefix; each is nil
\* exactly when there is no such address or the addresses cannot be read.
C8_FirstGlobalUnicast ==
    pc = "resolved" =>
        LET a4 == AddrsOf(fourFrom)
            a6 == AddrsOf(sixFrom)
            q4 == { k \in 1..Len(a4) : Qualifies4(a4[k]) }
            q6 == { k \in 1..Len(a6) : Qualifies6(a6[k]) }
        IN  /\ (four = nil) <=> (q4 = {})
            /\ (sixPrefix = nil) <=> (q6 = {})
            /\ q4 # {} =>
                  LET k == CHOOSE k \in q4 : \A j \in q4 : k <= j
                  IN  four = SubSeq(a4[k].ip, 13, 16)
            /\ q6 # {} =>
                  LET k == CHOOSE k \in q6 : \A j \in q6 : k <= j
                  IN  /\ Len(sixPrefix) = 16
                      /\ \A p \in 1..128 :
                            BitAt(sixPrefix, p) = BitAt(a6[k].ip, p) * BitAt(a6[k].mask, p)
            /\ four # nil => IsGlobalUnicast(four) /\ Len(four) = 4

\* two global IPv4 addresses on the -4 interface: the first one wins
C8_Witness ==
    /\ pc = "resolved"
    /\ Len(ifs) = 3
    /\ ifs[2].addrs = <<AddrGlobal4, IPNet(V4(198, 100, 123, 139), 24)>>
    /\ ~ifs[2].err
    /\ four = V4(1, 2, 3, 4)

====
